---- MODULE Spec2Model ----
(***************************************************************************)
(* Statera protocol: the ledger state machine of adaStateraProtocol.compact *)
(* (collateral positions, sUSD minting, stability pool, liquidation) with   *)
(* the helper circuits of its CustomLibrary.                                *)
(*                                                                          *)
(* A circuit call is one atomic transaction: when an assert, a checked      *)
(* cast, an unsigned subtraction or a custody primitive fails, the whole    *)
(* transaction is rejected.  Every action below computes the circuit body   *)
(* in program order and records the outcome of the call in `last`.          *)
(***************************************************************************)
EXTENDS Integers, FiniteSets, Sequences, TLC

(* ------------------------------ bounds --------------------------------- *)
\* successful mints allowed in a behaviour (caps mintCounter, totalMint, nonce)
MaxMints == 2
\* cap on ADA_sUSD_index (it grows with every liquidation)
MaxIndex == 1
\* cap on a staker's stake_reward (it grows with every reward check)
MaxReward == 8

Users == {1, 2}
DepositIds == {1, 2}

(* --------------------------- protocol constants ------------------------ *)
\* constructor arguments (liquidation threshold 80 as deployed by the API)
initLiquidationThreshold == 80
initialLVT == 50
initialMCR == 150
percentageDivisor == 100

\* token colours: default<Bytes<32>> is also the colour of the native token
NativeColor == 0
SUSDColor == 1
validCollateralAssetType == NativeColor

Fail == -1

(* ------------------------------ state ---------------------------------- *)
VARIABLES
    depositors,                 \* Map<Bytes<32>, Depositor>
    stakers,                    \* Map<Bytes<32>, Staker>
    reservePoolTotal,           \* QualifiedCoinInfo (color, value)
    stakePoolTotal,             \* QualifiedCoinInfo (color, value)
    ADA_sUSD_index,             \* Uint<128>
    cumulative_scaling_factor,  \* Uint<2>
    totalMint,                  \* Uint<128>
    mintCounter,                \* Counter
    nonce,                      \* Bytes<32>
    sUSDTokenType,              \* Bytes<32>
    priv,                       \* private MintMetadata store, per secret key and depositId
    outstanding,                \* per depositId: sUSD minted minus sUSD burned by repay
    focus,                      \* which ledger the behaviour explores in depth
    flow,                       \* coin values moved in and out of the reserve pool, and
                                \* the collateral positions held when they were liquidated
    last                        \* outcome of the last circuit call

ledger == <<depositors, stakers, reservePoolTotal, stakePoolTotal, ADA_sUSD_index,
            cumulative_scaling_factor, totalMint, mintCounter, nonce, sUSDTokenType>>

vars == <<depositors, stakers, reservePoolTotal, stakePoolTotal, ADA_sUSD_index,
          cumulative_scaling_factor, totalMint, mintCounter, nonce, sUSDTokenType,
          priv, outstanding, focus, flow, last>>

(* ------------------------------ helpers -------------------------------- *)
\* checked downcast `v as Uint<w>`: fails when v does not fit w bits (used for the
\* narrow fields Uint<4> and Uint<2>; the 32, 64 and 128 bit casts cannot fail for
\* the values of the model)
AsUint(w, v) == IF v >= 0 /\ v < 2^w THEN v ELSE Fail

\* the division witness of the API: native quotient and remainder
division(x, y) == <<x \div y, x % y>>

DivisionFunctionUnchecked(dividend, divisor, qr) ==
    IF divisor = 0 THEN Fail ELSE qr[1]

\* the body of DivisionFunction once the division witness has answered with the
\* pair qr = <<quotient, remainder>>; Fail when an assert rejects the call (the
\* witness is not asked when the divisor is 0)
DivisionFunctionWith(dividend, divisor, qr) ==
    IF divisor = 0 THEN Fail
    ELSE IF qr[2] < divisor /\ (qr[1] * divisor) + qr[2] = dividend
         THEN qr[1] ELSE Fail

\* DivisionFunction: quotient checked against the witness of the API
DivisionFunction(dividend, divisor) ==
    DivisionFunctionWith(dividend, divisor, division(dividend, divisor))

calculateHFactorFlat(collateralAmount, amountToMint, liquidationThreshold) == 1

calculateHFactor(collateralAmount, amountToMint, liquidationThreshold) ==
    DivisionFunction(collateralAmount * liquidationThreshold, amountToMint * 100)

\* persistentHash of the secret key under a domain separator: injective
generateUserId(sk) == <<"susd:user", sk>>

\* persistentCommit of the metadata with the depositId as randomizer: injective
hashMintMetadata(metadata, randomizer) == <<metadata.collateral, metadata.debt, randomizer>>

evolveNonce(counter, n) == <<counter, n>>

defaultCoin == [color |-> 0, value |-> 0]
\* the result of a custody primitive that rejects the transaction
FailCoin == [color |-> Fail, value |-> Fail]
defaultMetadata == [collateral |-> 0, debt |-> 0]

MapInsertAll(m, k, v) == [x \in (DOMAIN m) \cup {k} |-> v]

\* Map.insert
MapInsert(m, k, v) == [x \in (DOMAIN m) \cup {k} |-> IF x = k THEN v ELSE m[x]]

mergeCoinImmediateLast(pool, coin) ==
    IF pool.color = coin.color THEN coin ELSE FailCoin

\* mergeCoinImmediate(pool, coin): one coin of the pool's colour holding both values
mergeCoinImmediate(pool, coin) ==
    IF pool.color = coin.color
    THEN [color |-> pool.color, value |-> pool.value + coin.value]
    ELSE FailCoin

sendFromPoolEmptied(pool, value) == IF pool.value < value THEN FailCoin ELSE defaultCoin

sendFromPoolKept(pool, value) == IF pool.value < value THEN FailCoin ELSE pool

\* send(pool, recipient, value) followed by writeCoin(change) / resetToDefault
sendFromPool(pool, value) ==
    IF pool.value < value THEN FailCoin
    ELSE IF pool.value - value > 0
         THEN [color |-> pool.color, value |-> pool.value - value]
         ELSE defaultCoin

\* the record of a call: an accepted transaction is recorded with its circuit,
\* caller, arguments and result; a rejected one with its circuit and with whether
\* the check that rejected it came after the circuit had written to the ledger
NoCaller == <<0, 0>>
NoArgs == <<>>
Call(op, caller, args, ok, ret, late) ==
    IF ok THEN [op |-> op, caller |-> caller, ok |-> TRUE, args |-> args, ret |-> ret,
                late |-> FALSE]
    ELSE [op |-> op, caller |-> NoCaller, ok |-> FALSE, args |-> NoArgs, ret |-> NoArgs,
          late |-> late]

\* the ledger as the constructor leaves it; F is the set of explorations
InitFocus(F) ==
    /\ depositors = <<>>
    /\ stakers = <<>>
    /\ reservePoolTotal = defaultCoin
    /\ stakePoolTotal = defaultCoin
    /\ ADA_sUSD_index = 0
    /\ cumulative_scaling_factor = 1
    /\ totalMint = 0
    /\ mintCounter = 0
    /\ nonce = 0
    /\ sUSDTokenType = 0
    /\ priv = [s \in Users |-> [d \in DepositIds |-> defaultMetadata]]
    /\ outstanding = [d \in DepositIds |-> 0]
    /\ flow = [deposited |-> 0, withdrawn |-> 0, rewards |-> 0, liquidated |-> 0]
    /\ focus \in F
    /\ last = Call("constructor", NoCaller, NoArgs, TRUE, NoArgs, FALSE)

Init == InitFocus({"positions", "pool", "scenario"})

(* ------------------------------ inputs --------------------------------- *)
\* The inputs of the circuits are drawn from small sets.  The position ledger and
\* the stability pool meet only in liquidations and in the reserve pool, so a
\* behaviour explores one of them in depth (`focus`) and drives the other with a
\* minimal set of inputs; every circuit is callable under every focus.  The third
\* focus replays the documented scenarios with their own amounts (collateral 1000
\* against a borrow limit of 500, a stake of 100 and a liquidated debt of 50).
Positions == focus = "positions"
Scenario == focus = "scenario"
\* a fourth exploration, of its own specification, follows the reserve pool with two
\* positions and two stakers
Reserve == focus = "reserve"

\* a caller is a wallet public key together with the secret key of its private state
Callers == {<<u, u>> : u \in Users}
\* the users are interchangeable: positions are opened by the first one
DepositCallers == {<<1, 1>>}
PositionIds == IF Reserve THEN DepositIds ELSE {1}
\* the reserve exploration keeps the roles apart: the first user owns and drives
\* the positions, the second user liquidates, and liquidations target the first
\* position while the second one stays open
PositionCallers == IF Reserve THEN DepositCallers ELSE Callers
LiquidateCallers == IF Reserve THEN {<<2, 2>>} ELSE Callers
LiquidateIds == {1}
StakeCallers == IF Positions \/ Scenario THEN {<<2, 2>>} ELSE Callers
Colors == {NativeColor, SUSDColor}
CollateralValues == IF Scenario THEN {1000} ELSE IF Reserve THEN {4} ELSE {20}
DepositMetadata == [collateral : CollateralValues, debt : {0}]
DepositCoins == [color : IF Reserve THEN Colors ELSE {NativeColor},
                 value : IF Scenario THEN {1000} ELSE IF Reserve THEN {4}
                         ELSE IF Positions THEN {4, 20} ELSE {20}]
MintAmounts == IF Scenario THEN {500, 501} ELSE IF Reserve THEN {2}
               ELSE IF Positions THEN {0, 1, 10, 12} ELSE {}
WithdrawAmounts == IF Scenario THEN {500} ELSE IF Reserve THEN {4}
                   ELSE IF Positions THEN {0, 20} ELSE {}
OraclePrices == {0, 1}
RepayAmounts == IF Scenario THEN {600} ELSE IF Reserve THEN {2}
                ELSE IF Positions THEN {5, 10} ELSE {}
RepayCoins == [color : Colors,
               value : IF Scenario THEN {600} ELSE IF Reserve THEN {2} ELSE {5, 10}]
StakeCoins == [color : IF Positions THEN Colors ELSE {SUSDColor},
               value : IF Scenario THEN {100} ELSE {4}]
LiquidateCollateral == IF Positions \/ Scenario THEN {0} ELSE IF Reserve THEN {4} ELSE {0, 4}
LiquidateDebts == IF Scenario THEN {50} ELSE IF Reserve THEN {0}
                  ELSE IF Positions THEN {0, 2} ELSE {0, 2, 4}
RewardAmounts == IF Scenario THEN {0} ELSE IF Positions \/ Reserve THEN {4} ELSE {0, 4}

\* what get_mintmetadata_private_state may return to the circuit: the caller's own
\* record, a record another user holds for the position, or the caller's record
\* with the debt edited away
WitnessMetadata(sk, id) ==
    {priv[s][id] : s \in Users} \cup {[priv[sk][id] EXCEPT !.debt = 0]}

(* --------------------------- admin circuits ---------------------------- *)
setSUSDTokenType(pk) ==
    IF pk # 1 THEN [ok |-> FALSE, sUSDTokenType |-> sUSDTokenType]
    ELSE [ok |-> TRUE, sUSDTokenType |-> SUSDColor]

SetSUSDTokenType ==
    \E c \in Callers :
        LET r == setSUSDTokenType(c[1]) IN
        /\ sUSDTokenType' = r.sUSDTokenType
        /\ last' = Call("setSUSDTokenType", c, NoArgs, r.ok, NoArgs, FALSE)
        /\ UNCHANGED <<depositors, stakers, reservePoolTotal, stakePoolTotal, ADA_sUSD_index,
                       cumulative_scaling_factor, totalMint, mintCounter, nonce, priv, outstanding, focus, flow>>

(* ------------------------- depositToCollateralPool --------------------- *)
depositBorrowLimitFull(LVT, collateral) == collateral

\* the cast to Uint<32> cannot fail for the collateral values of the model
depositBorrowLimit(LVT, collateral) ==
    DivisionFunction(LVT * collateral, percentageDivisor)

depositToCollateralPool(sk, coin, id, metadata) ==
    LET rejected == [ok |-> FALSE, depositors |-> depositors, reserve |-> reservePoolTotal]
        coinToInsert == IF DOMAIN depositors # {}
                        THEN mergeCoinImmediate(reservePoolTotal, coin)
                        ELSE coin
        borrowLimit == depositBorrowLimit(initialLVT, metadata.collateral)
    IN  IF id \in DOMAIN depositors THEN rejected
        ELSE IF ~(coin.value >= metadata.collateral) THEN rejected
        ELSE IF coinToInsert = FailCoin THEN rejected
        ELSE IF borrowLimit = Fail THEN rejected
        ELSE [ok |-> TRUE,
              reserve |-> coinToInsert,
              depositors |-> MapInsert(depositors, id,
                  [id |-> generateUserId(sk),
                   metadataHash |-> hashMintMetadata(metadata, id),
                   hFactor |-> 0,
                   position |-> "inactive",
                   coinType |-> coin.color,
                   borrowLimit |-> borrowLimit])]

Deposit ==
    \E c \in DepositCallers, id \in PositionIds, coin \in DepositCoins, m \in DepositMetadata :
        LET r == depositToCollateralPool(c[2], coin, id, m) IN
        /\ depositors' = r.depositors
        /\ reservePoolTotal' = r.reserve
        /\ priv' = IF r.ok THEN [priv EXCEPT ![c[2]][id] = m] ELSE priv
        /\ flow' = IF r.ok THEN [flow EXCEPT !.deposited = @ + coin.value] ELSE flow
        /\ last' = Call("deposit", c, [coin |-> coin, id |-> id, metadata |-> m],
                      r.ok, NoArgs, FALSE)
        /\ UNCHANGED <<stakers, stakePoolTotal, ADA_sUSD_index, cumulative_scaling_factor,
                       totalMint, mintCounter, nonce, sUSDTokenType, outstanding, focus>>

(* ------------------------------- mint_sUSD ----------------------------- *)
\* the debt recorded in the private metadata by a mint
mintNewDebt(oldDebt, mint_amount) == mint_amount

mint_sUSD(sk, mint_amount, id, mintMetadata) ==
    LET rejected == [ok |-> FALSE, depositors |-> depositors, nonce |-> nonce,
                     mintCounter |-> mintCounter, totalMint |-> totalMint,
                     metadata |-> mintMetadata, minted |-> 0, late |-> FALSE]
        pos == depositors[id]
        healthFactor == calculateHFactor(mintMetadata.collateral, mint_amount, initLiquidationThreshold)
        newNonce == evolveNonce(mintCounter, nonce)
        newMintMetadata == [mintMetadata EXCEPT !.debt = mintNewDebt(mintMetadata.debt, mint_amount)]
    IN  IF id \notin DOMAIN depositors THEN rejected
        ELSE IF generateUserId(sk) # pos.id THEN rejected
        ELSE IF ~(mint_amount <= pos.borrowLimit) THEN rejected
        ELSE IF hashMintMetadata(mintMetadata, id) # pos.metadataHash THEN rejected
        ELSE IF healthFactor = Fail THEN rejected
        ELSE IF ~(healthFactor >= 1) THEN rejected
        \* mintToken and set_mint_metadata have run when the cast to Uint<4> is checked
        ELSE IF AsUint(4, healthFactor) = Fail THEN [rejected EXCEPT !.late = TRUE]
        ELSE [ok |-> TRUE, late |-> FALSE,
              depositors |-> MapInsert(depositors, id,
                  [pos EXCEPT !.position = "active",
                              !.metadataHash = hashMintMetadata(newMintMetadata, id),
                              !.hFactor = AsUint(4, healthFactor)]),
              nonce |-> newNonce,
              mintCounter |-> mintCounter + 1,
              totalMint |-> totalMint + mint_amount,
              metadata |-> newMintMetadata,
              minted |-> mint_amount]

Mint ==
    /\ mintCounter < MaxMints
    /\ \E c \in PositionCallers, id \in PositionIds, amt \in MintAmounts :
       \E m \in WitnessMetadata(c[2], id) :
        LET r == mint_sUSD(c[2], amt, id, m) IN
        /\ depositors' = r.depositors
        /\ nonce' = r.nonce
        /\ mintCounter' = r.mintCounter
        /\ totalMint' = r.totalMint
        /\ priv' = IF r.ok THEN [priv EXCEPT ![c[2]][id] = r.metadata] ELSE priv
        /\ outstanding' = [outstanding EXCEPT ![id] = @ + r.minted]
        /\ last' = Call("mint", c, [amount |-> amt, id |-> id, metadata |-> m],
                      r.ok, NoArgs, r.late)
        /\ UNCHANGED <<stakers, reservePoolTotal, stakePoolTotal, ADA_sUSD_index,
                       cumulative_scaling_factor, sUSDTokenType, focus, flow>>

(* ---------------------------- withdrawCollateral ----------------------- *)
\* the position state a withdrawal leaves behind
withdrawPosition(position) == IF position = "inactive" THEN "closed" ELSE position

withdrawCollateral(sk, id, amountToWithdraw, oraclePrice, metadata) ==
    LET rejected == [ok |-> FALSE, depositors |-> depositors, reserve |-> reservePoolTotal,
                     metadata |-> metadata]
        pos == depositors[id]
        MCV == DivisionFunction(metadata.debt * initialMCR, percentageDivisor)
        value == (metadata.collateral * oraclePrice) - MCV
        withdrawableCollateral == DivisionFunction(value, oraclePrice)
        balance == metadata.collateral - amountToWithdraw
        reserve == sendFromPool(reservePoolTotal, amountToWithdraw)
        newMetadata == [metadata EXCEPT !.collateral = balance]
    IN  IF id \notin DOMAIN depositors THEN rejected
        ELSE IF generateUserId(sk) # pos.id THEN rejected
        ELSE IF hashMintMetadata(metadata, id) # pos.metadataHash THEN rejected
        ELSE IF pos.position = "liquidated" THEN rejected
        ELSE IF MCV = Fail THEN rejected
        ELSE IF value < 0 THEN rejected
        ELSE IF withdrawableCollateral = Fail THEN rejected
        ELSE IF ~(amountToWithdraw <= withdrawableCollateral) THEN rejected
        ELSE IF balance < 0 THEN rejected
        ELSE IF reserve = FailCoin THEN rejected
        ELSE [ok |-> TRUE,
              reserve |-> reserve,
              metadata |-> newMetadata,
              depositors |-> MapInsert(depositors, id,
                  [pos EXCEPT !.position = withdrawPosition(pos.position),
                              !.metadataHash = hashMintMetadata(newMetadata, id)])]

Withdraw ==
    \E c \in PositionCallers, id \in PositionIds, amt \in WithdrawAmounts, price \in OraclePrices :
    \E m \in WitnessMetadata(c[2], id) :
        LET r == withdrawCollateral(c[2], id, amt, price, m) IN
        /\ depositors' = r.depositors
        /\ reservePoolTotal' = r.reserve
        /\ priv' = IF r.ok THEN [priv EXCEPT ![c[2]][id] = r.metadata] ELSE priv
        /\ flow' = IF r.ok THEN [flow EXCEPT !.withdrawn = @ + amt] ELSE flow
        /\ last' = Call("withdraw", c, [id |-> id, amount |-> amt, oraclePrice |-> price, metadata |-> m],
                      r.ok, NoArgs, FALSE)
        /\ UNCHANGED <<stakers, stakePoolTotal, ADA_sUSD_index, cumulative_scaling_factor,
                       totalMint, mintCounter, nonce, sUSDTokenType, outstanding, focus>>

(* --------------------------------- repay ------------------------------- *)
sendImmediateUnchecked(coin, value) == [color |-> coin.color, value |-> 0]

\* sendImmediate(coin, recipient, value): the change left of the coin; the send is
\* rejected when the coin holds less than value
sendImmediate(coin, value) ==
    IF coin.value < value THEN FailCoin
    ELSE [color |-> coin.color, value |-> coin.value - value]

repayPositionKept(position, balanceToRepay) == position

\* the position state a repayment leaves behind
repayPosition(position, balanceToRepay) == IF balanceToRepay > 0 THEN position ELSE "closed"

repay(sk, coin, id, amountToRepay, metadata) ==
    LET rejected == [ok |-> FALSE, depositors |-> depositors, metadata |-> metadata, burned |-> 0]
        pos == depositors[id]
        balanceToRepay == metadata.debt - amountToRepay
        newMetadata == [metadata EXCEPT !.debt = balanceToRepay]
    IN  IF id \notin DOMAIN depositors THEN rejected
        ELSE IF pos.position # "active" THEN rejected
        ELSE IF hashMintMetadata(metadata, id) # pos.metadataHash THEN rejected
        ELSE IF coin.color # sUSDTokenType THEN rejected
        ELSE IF ~(amountToRepay <= metadata.debt) THEN rejected
        ELSE IF ~(amountToRepay >= coin.value) THEN rejected
        \* sendImmediate(coin, burnAddress, amountToRepay)
        ELSE IF sendImmediate(coin, amountToRepay) = FailCoin THEN rejected
        ELSE [ok |-> TRUE,
              metadata |-> newMetadata,
              burned |-> amountToRepay,
              depositors |-> MapInsert(depositors, id,
                  [pos EXCEPT !.metadataHash = hashMintMetadata(newMetadata, id),
                              !.position = repayPosition(pos.position, balanceToRepay)])]

Repay ==
    \E c \in PositionCallers, id \in PositionIds, coin \in RepayCoins, amt \in RepayAmounts :
    \E m \in WitnessMetadata(c[2], id) :
        LET r == repay(c[2], coin, id, amt, m) IN
        /\ depositors' = r.depositors
        /\ priv' = IF r.ok THEN [priv EXCEPT ![c[2]][id] = r.metadata] ELSE priv
        /\ outstanding' = [outstanding EXCEPT ![id] = @ - r.burned]
        /\ last' = Call("repay", c, [coin |-> coin, id |-> id, amount |-> amt, metadata |-> m],
                      r.ok, NoArgs, FALSE)
        /\ UNCHANGED <<stakers, reservePoolTotal, stakePoolTotal, ADA_sUSD_index,
                       cumulative_scaling_factor, totalMint, mintCounter, nonce, sUSDTokenType, focus, flow>>

(* ------------------------- depositToStabilityPool ---------------------- *)
depositToStabilityPool(pk, sk, coin) ==
    LET rejected == [ok |-> FALSE, stakers |-> stakers, stakePool |-> stakePoolTotal]
        pool == IF DOMAIN stakers = {} THEN coin ELSE mergeCoinImmediate(stakePoolTotal, coin)
    IN  IF pk \in DOMAIN stakers THEN rejected
        ELSE IF coin.color # sUSDTokenType THEN rejected
        ELSE IF pool = FailCoin THEN rejected
        ELSE [ok |-> TRUE,
              stakePool |-> pool,
              stakers |-> MapInsert(stakers, pk,
                  [id |-> generateUserId(sk),
                   address |-> pk,
                   stakeAmount |-> coin.value,
                   entry_ADA_SUSD_index |-> ADA_sUSD_index,
                   effective_user_balance |-> coin.value,
                   stake_reward |-> 0,
                   entry_scale_factor |-> cumulative_scaling_factor])]

Stake ==
    \E c \in StakeCallers, coin \in StakeCoins :
        LET r == depositToStabilityPool(c[1], c[2], coin) IN
        /\ stakers' = r.stakers
        /\ stakePoolTotal' = r.stakePool
        /\ last' = Call("stake", c, [coin |-> coin], r.ok, NoArgs, FALSE)
        /\ UNCHANGED <<depositors, reservePoolTotal, ADA_sUSD_index, cumulative_scaling_factor,
                       totalMint, mintCounter, nonce, sUSDTokenType, priv, outstanding, focus, flow>>

(* ----------------------------- checkStakeReward ------------------------ *)
\* the reward a check computes for a stake position
stakeRewardOf(stakePosition, index) ==
    (stakePosition.stakeAmount * (index - stakePosition.entry_ADA_SUSD_index))
        + stakePosition.stake_reward

checkStakeReward(pk, sk) ==
    LET rejected == [ok |-> FALSE, stakers |-> stakers, reward |-> 0, position |-> <<>>]
        stakePosition == stakers[pk]
        stakeReward == stakeRewardOf(stakePosition, ADA_sUSD_index)
        ratio == DivisionFunction(cumulative_scaling_factor, stakePosition.entry_scale_factor)
        new_user_effective_bal == stakePosition.stakeAmount * ratio
        updatedStakersPosition == [stakePosition EXCEPT !.stake_reward = stakeReward,
                                       !.effective_user_balance = new_user_effective_bal]
    IN  IF pk \notin DOMAIN stakers THEN rejected
        ELSE IF generateUserId(sk) # stakePosition.id THEN rejected
        ELSE IF ADA_sUSD_index < stakePosition.entry_ADA_SUSD_index THEN rejected
        ELSE IF ratio = Fail THEN rejected
        ELSE [ok |-> TRUE,
              stakers |-> MapInsert(stakers, pk, updatedStakersPosition),
              reward |-> stakeReward,
              position |-> updatedStakersPosition]

CheckReward ==
    \E c \in Callers :
        LET r == checkStakeReward(c[1], c[2]) IN
        /\ r.ok => r.reward <= MaxReward
        /\ stakers' = r.stakers
        /\ last' = Call("checkReward", c, NoArgs, r.ok,
                      [reward |-> r.reward, position |-> r.position], FALSE)
        /\ UNCHANGED <<depositors, reservePoolTotal, stakePoolTotal, ADA_sUSD_index,
                       cumulative_scaling_factor, totalMint, mintCounter, nonce, sUSDTokenType,
                       priv, outstanding, focus, flow>>

(* ---------------------------- withdrawStakeReward ---------------------- *)
rewardRejectedAfterCheck(checked, late) ==
    [ok |-> FALSE, stakers |-> checked, reserve |-> reservePoolTotal, late |-> late]

\* what a rejected reward withdrawal leaves on the ledger: nothing of it, also when
\* checkStakeReward had already inserted the staker record of `checked`
rewardRejected(checked, late) ==
    [ok |-> FALSE, stakers |-> stakers, reserve |-> reservePoolTotal, late |-> late]

withdrawStakeReward(pk, sk, amount) ==
    LET checked == checkStakeReward(pk, sk)
        stakeReward == checked.reward
        reserve == sendFromPool(reservePoolTotal, amount)
        updatedStakePosition == [checked.position EXCEPT
                                     !.stake_reward = stakeReward - amount,
                                     !.entry_ADA_SUSD_index = ADA_sUSD_index]
    IN  IF ~checked.ok THEN rewardRejected(checked.stakers, FALSE)
        ELSE IF ~(amount <= stakeReward) THEN rewardRejected(checked.stakers, TRUE)
        ELSE IF reserve = FailCoin THEN rewardRejected(checked.stakers, TRUE)
        ELSE [ok |-> TRUE, late |-> FALSE,
              reserve |-> reserve,
              stakers |-> MapInsert(stakers, pk, updatedStakePosition)]

WithdrawReward ==
    \E c \in Callers, amt \in RewardAmounts :
        LET r == withdrawStakeReward(c[1], c[2], amt) IN
        /\ stakers' = r.stakers
        /\ reservePoolTotal' = r.reserve
        /\ flow' = IF r.ok THEN [flow EXCEPT !.rewards = @ + amt] ELSE flow
        /\ last' = Call("withdrawReward", c, [amount |-> amt], r.ok, NoArgs, r.late)
        /\ UNCHANGED <<depositors, stakePoolTotal, ADA_sUSD_index, cumulative_scaling_factor,
                       totalMint, mintCounter, nonce, sUSDTokenType, priv, outstanding, focus>>

(* --------------------------- liquidateDebtPosition --------------------- *)
scaleAfterLossGrowing(factor, loss_ratio) == factor * (1 + loss_ratio)

\* the scaling factor after a liquidation with the given loss ratio
scaleAfterLoss(factor, loss_ratio) == factor * (1 - loss_ratio)

\* the index after a liquidation that distributes current_ADA_sUSD_index
indexAfterLiquidation(index, current_ADA_sUSD_index) == index + current_ADA_sUSD_index

liquidateRejectedAfterBurn(burned, late) ==
    [ok |-> FALSE, depositors |-> depositors, stakePool |-> burned,
     index |-> ADA_sUSD_index, factor |-> cumulative_scaling_factor, late |-> late]

\* what a rejected liquidation leaves on the ledger: the transaction is dropped
\* as a whole, also when the stake pool coin `burned` was already written
liquidateRejected(burned, late) ==
    [ok |-> FALSE, depositors |-> depositors, stakePool |-> stakePoolTotal,
     index |-> ADA_sUSD_index, factor |-> cumulative_scaling_factor, late |-> late]

liquidateDebtPosition(collateralAmt, id, debt) ==
    LET pos == depositors[id]
        pool == sendFromPool(stakePoolTotal, debt)
        current_ADA_sUSD_index == DivisionFunction(collateralAmt, pool.value)
        loss_ratio == DivisionFunction(debt, pool.value)
        factor == AsUint(2, scaleAfterLoss(cumulative_scaling_factor, loss_ratio))
    IN  IF id \notin DOMAIN depositors THEN liquidateRejected(stakePoolTotal, FALSE)
        ELSE IF ~(stakePoolTotal.value >= debt) THEN liquidateRejected(stakePoolTotal, FALSE)
        ELSE IF pool = FailCoin THEN liquidateRejected(stakePoolTotal, FALSE)
        ELSE IF current_ADA_sUSD_index = Fail THEN liquidateRejected(pool, TRUE)
        ELSE IF loss_ratio = Fail THEN liquidateRejected(pool, TRUE)
        \* 1 - loss_ratio is an unsigned subtraction
        ELSE IF 1 - loss_ratio < 0 THEN liquidateRejected(pool, TRUE)
        ELSE IF factor = Fail THEN liquidateRejected(pool, TRUE)
        ELSE [ok |-> TRUE, late |-> FALSE,
              stakePool |-> pool,
              index |-> indexAfterLiquidation(ADA_sUSD_index, current_ADA_sUSD_index),
              factor |-> factor,
              depositors |-> MapInsert(depositors, id,
                  [pos EXCEPT !.hFactor = 0, !.position = "liquidated", !.borrowLimit = 0])]

Liquidate ==
    \E c \in LiquidateCallers, collateralAmt \in LiquidateCollateral, id \in LiquidateIds,
       debt \in LiquidateDebts :
        LET r == liquidateDebtPosition(collateralAmt, id, debt) IN
        /\ r.index <= MaxIndex
        /\ depositors' = r.depositors
        /\ stakePoolTotal' = r.stakePool
        /\ ADA_sUSD_index' = r.index
        /\ cumulative_scaling_factor' = r.factor
        /\ priv' = IF r.ok THEN [priv EXCEPT ![c[2]][id] = defaultMetadata] ELSE priv
        /\ last' = Call("liquidate", c, [collateralAmt |-> collateralAmt, id |-> id, debt |-> debt],
                      r.ok, NoArgs, r.late)
        \* a position counts once, with the collateral its commitment holds when
        \* it first becomes liquidated
        /\ flow' = IF r.ok /\ depositors[id].position # "liquidated"
                   THEN [flow EXCEPT !.liquidated = @ + depositors[id].metadataHash[1]]
                   ELSE flow
        /\ UNCHANGED <<stakers, reservePoolTotal, totalMint, mintCounter, nonce, sUSDTokenType,
                       outstanding, focus>>

Next ==
    \/ SetSUSDTokenType
    \/ Deposit
    \/ Mint
    \/ Withdraw
    \/ Repay
    \/ Stake
    \/ CheckReward
    \/ WithdrawReward
    \/ Liquidate

Spec == Init /\ [][Next]_vars

\* the same circuits, followed on the reserve pool with two positions and two stakers
InitReserve == InitFocus({"reserve"})

SpecReserve == InitReserve /\ [][Next]_vars

(* --------------------- DivisionFunction on its own --------------------- *)
\* the operands and the answers of the witness the circuit is called with
MaxDividend == 6
MaxDivisor == 3

\* the circuit with a witness that answers any pair of a quotient and a remainder
DivideWith ==
    \E dividend \in 0..MaxDividend, divisor \in 0..MaxDivisor,
       quotient \in 0..MaxDividend, remainder \in 0..MaxDivisor :
        LET r == DivisionFunctionWith(dividend, divisor, <<quotient, remainder>>) IN
        /\ last' = [op |-> "DivisionFunctionWith", caller |-> NoCaller, ok |-> r # Fail,
                    args |-> [dividend |-> dividend, divisor |-> divisor,
                              quotient |-> quotient, remainder |-> remainder],
                    ret |-> r, late |-> FALSE]
        /\ UNCHANGED <<ledger, priv, outstanding, focus, flow>>

\* the circuit with the witness of the API
Divide ==
    \E dividend \in 0..MaxDividend, divisor \in 0..MaxDivisor :
        LET r == DivisionFunction(dividend, divisor) IN
        /\ last' = [op |-> "DivisionFunction", caller |-> NoCaller, ok |-> r # Fail,
                    args |-> [dividend |-> dividend, divisor |-> divisor],
                    ret |-> r, late |-> FALSE]
        /\ UNCHANGED <<ledger, priv, outstanding, focus, flow>>

InitDivision == InitFocus({"division"})

NextDivision ==
    \/ DivideWith
    \/ Divide

SpecDivision == InitDivision /\ [][NextDivision]_vars

(* ============================== properties ============================== *)
RECURSIVE SumOver(_, _)
SumOver(S, f) == IF S = {} THEN 0
                 ELSE LET x == CHOOSE y \in S : TRUE IN f[x] + SumOver(S \ {x}, f)

\* the metadata the stored commitment of a position opens to
committed(id) == [collateral |-> depositors[id].metadataHash[1],
                  debt |-> depositors[id].metadataHash[2]]

Terminal == {"closed", "liquidated"}
OpenPositions == {id \in DOMAIN depositors : depositors[id].position \notin Terminal}

\* C1: in every reachable state totalMint equals the sum of the private debt (the
\* debt the stored commitment opens to) of all positions that are neither closed
\* nor liquidated.
C1_TotalMintIsOpenDebt ==
    totalMint = SumOver(OpenPositions, [id \in OpenPositions |-> committed(id).debt])

\* C2: closed and liquidated are terminal: a position that is closed stays closed
\* and one that is liquidated stays liquidated, whatever is called next.
C2_TerminalStates ==
    [][\A id \in DOMAIN depositors :
          depositors[id].position \in Terminal
              => depositors'[id].position = depositors[id].position]_vars

\* C3: a position leaves inactive or active only along the four edges of the state
\* machine: inactive -> active by mint, inactive -> closed by withdraw, active ->
\* closed by a repay that brings the debt to 0, active -> liquidated by liquidate.
C3_OnlySpecifiedEdges ==
    [][\A id \in DOMAIN depositors :
          LET p == depositors[id].position
              q == depositors'[id].position
          IN  (p \notin Terminal /\ q # p) =>
                \/ p = "inactive" /\ q = "active" /\ last'.op = "mint"
                \/ p = "inactive" /\ q = "closed" /\ last'.op = "withdraw"
                \/ p = "active" /\ q = "closed" /\ last'.op = "repay"
                     /\ depositors'[id].metadataHash[2] = 0
                \/ p = "active" /\ q = "liquidated" /\ last'.op = "liquidate"]_vars

\* C4: a liquidate call on a position that is already liquidated is rejected, for
\* every collateralAmt and debt and every stake pool balance, and leaves the stake
\* pool, ADA_sUSD_index and cumulative_scaling_factor as they were.
C4_SecondLiquidationFails ==
    \A id \in DOMAIN depositors, collateralAmt \in LiquidateCollateral, debt \in LiquidateDebts :
        depositors[id].position = "liquidated" =>
            LET r == liquidateDebtPosition(collateralAmt, id, debt)
            IN  /\ ~r.ok
                /\ r.stakePool = stakePoolTotal
                /\ r.index = ADA_sUSD_index
                /\ r.factor = cumulative_scaling_factor

\* C5: checkReward is idempotent: a second checkReward by the same staker right
\* after the first returns the same reward and effective balance and leaves the
\* Staker record as the first call left it.
C5_CheckRewardIdempotent ==
    [][(/\ last.op = "checkReward" /\ last.ok
        /\ last'.op = "checkReward" /\ last'.ok
        /\ last'.caller = last.caller)
          => /\ last'.ret.reward = last.ret.reward
             /\ last'.ret.position.effective_user_balance
                    = last.ret.position.effective_user_balance
             /\ stakers' = stakers]_vars

\* C6: after every accepted deposit, mint, withdraw, repay or liquidate, the stored
\* metadataHash is the hash of the private metadata of the position as the call
\* left it (the record of the caller, which the circuit read and wrote).
C6_HashMatchesPrivateMetadata ==
    (last.ok /\ last.op \in {"deposit", "mint", "withdraw", "repay", "liquidate"}) =>
        depositors[last.args.id].metadataHash
            = hashMintMetadata(priv[last.caller[2]][last.args.id], last.args.id)

\* C7: cumulative_scaling_factor starts at 1 and never increases, ADA_sUSD_index
\* never decreases, and only an accepted liquidate changes either of them.
C7_MonotoneIndices ==
    /\ cumulative_scaling_factor = 1
    /\ [][/\ cumulative_scaling_factor' <= cumulative_scaling_factor
          /\ ADA_sUSD_index' >= ADA_sUSD_index
          /\ (cumulative_scaling_factor' # cumulative_scaling_factor
                \/ ADA_sUSD_index' # ADA_sUSD_index)
               => (last'.op = "liquidate" /\ last'.ok)]_vars

\* a liquidation that lowered the scaling factor and raised the index
C7_Witness ==
    /\ last.op = "liquidate" /\ last.ok
    /\ cumulative_scaling_factor = 0
    /\ ADA_sUSD_index > 0

C9_OutstandingWithinBorrowLimit ==
    \A id \in DOMAIN depositors :
        depositors[id].position # "liquidated"
            => outstanding[id] <= depositors[id].borrowLimit

\* C10: mint is accepted whenever the position exists, the caller owns it, the
\* metadata matches the commitment, 1 <= amount <= borrowLimit and the health
\* factor floor(collateral*liquidationThreshold / (amount*100)) is at least 1; then
\* the position is active, the private debt is amount and hFactor is that factor.
C10_MintAccepted ==
    \A c \in Callers, id \in DOMAIN depositors, amt \in MintAmounts :
    \A m \in WitnessMetadata(c[2], id) :
        LET hf == (m.collateral * initLiquidationThreshold) \div (amt * 100)
            r == mint_sUSD(c[2], amt, id, m)
        IN  (/\ generateUserId(c[2]) = depositors[id].id
             /\ hashMintMetadata(m, id) = depositors[id].metadataHash
             /\ 1 <= amt /\ amt <= depositors[id].borrowLimit
             /\ hf >= 1)
            => /\ r.ok
               /\ r.depositors[id].position = "active"
               /\ r.metadata.debt = amt
               /\ r.depositors[id].hFactor = hf

\* C11: mint is rejected and changes nothing whenever the position is absent, the
\* caller is not its owner, the amount exceeds borrowLimit, the supplied metadata
\* does not hash to the stored commitment, or the health factor is below 1; with
\* collateral 1000, LVT 50 and threshold 80 the owner's mint(500) is accepted and
\* mint(501) is rejected.
C11_MintRejected ==
    /\ \A c \in Callers, id \in DepositIds, amt \in MintAmounts :
       \A m \in WitnessMetadata(c[2], id) :
          LET r == mint_sUSD(c[2], amt, id, m)
          IN  (\/ id \notin DOMAIN depositors
               \/ generateUserId(c[2]) # depositors[id].id
               \/ amt > depositors[id].borrowLimit
               \/ hashMintMetadata(m, id) # depositors[id].metadataHash
               \/ (amt > 0 /\ (m.collateral * initLiquidationThreshold) \div (amt * 100) < 1))
              => /\ ~r.ok
                 /\ r.depositors = depositors /\ r.nonce = nonce
                 /\ r.mintCounter = mintCounter /\ r.totalMint = totalMint
                 /\ r.metadata = m /\ r.minted = 0
    /\ \A c \in Callers, id \in DOMAIN depositors :
          LET m == priv[c[2]][id]
          IN  (/\ generateUserId(c[2]) = depositors[id].id
               /\ hashMintMetadata(m, id) = depositors[id].metadataHash
               /\ m.collateral = 1000 /\ depositors[id].borrowLimit = 500)
              => /\ mint_sUSD(c[2], 500, id, m).ok
                 /\ ~mint_sUSD(c[2], 501, id, m).ok

\* a mint rejected on the position of the scenario after its mint(500) was accepted
C11_Witness ==
    /\ last.op = "mint" /\ ~last.ok
    /\ 1 \in DOMAIN depositors
    /\ depositors[1].borrowLimit = 500 /\ depositors[1].position = "active"
    /\ totalMint = 500

\* C12: right after an accepted deposit of a coin with private collateral c, the new
\* Depositor has borrowLimit floor(LVT*c/100), position inactive, hFactor 0, the
\* colour of the coin as coinType, the id derived from the caller's secret and the
\* hash of the metadata under the depositId; the limit is the floor for every c.
C12_DepositRecord ==
    /\ (last.op = "deposit" /\ last.ok) =>
          depositors[last.args.id] =
              [id |-> generateUserId(last.caller[2]),
               metadataHash |-> hashMintMetadata(last.args.metadata, last.args.id),
               hFactor |-> 0,
               position |-> "inactive",
               coinType |-> last.args.coin.color,
               borrowLimit |-> (initialLVT * last.args.metadata.collateral) \div 100]
    /\ \A c \in 0 .. 25 : depositBorrowLimit(initialLVT, c) = (initialLVT * c) \div 100

\* a deposit of collateral 1000 was just accepted with a borrow limit of 500
C12_Witness ==
    /\ last.op = "deposit" /\ last.ok
    /\ last.args.metadata.collateral = 1000
    /\ depositors[last.args.id].borrowLimit = 500

\* C13: repay verifies ownership: on an active position a repay by a caller whose
\* derived id differs from the stored id is rejected and leaves the position, its
\* private debt and its metadataHash as they were, whatever coin, amount and
\* metadata are supplied.
C13_RepayChecksOwner ==
    \A c \in Callers, id \in DOMAIN depositors, coin \in RepayCoins, amt \in RepayAmounts :
    \A m \in WitnessMetadata(c[2], id) :
        LET r == repay(c[2], coin, id, amt, m)
        IN  (/\ depositors[id].position = "active"
             /\ generateUserId(c[2]) # depositors[id].id)
            => /\ ~r.ok
               /\ r.depositors = depositors
               /\ r.metadata = m

\* the metadata a call supplies for the position it changes: the private metadata
\* read by the circuit, or the collateral and debt passed to a liquidation
suppliedMetadata(call) ==
    IF call.op = "liquidate"
    THEN [collateral |-> call.args.collateralAmt, debt |-> call.args.debt]
    ELSE call.args.metadata

\* C14: an existing Depositor record is changed only by an accepted mint, withdraw,
\* repay or liquidate whose supplied metadata (or amounts) hash to the metadataHash
\* stored at the start of the call.
C14_MutationNeedsCommitment ==
    [][\A id \in DOMAIN depositors :
          depositors'[id] # depositors[id]
              => /\ last'.ok
                 /\ last'.op \in {"mint", "withdraw", "repay", "liquidate"}
                 /\ hashMintMetadata(suppliedMetadata(last'), id)
                        = depositors[id].metadataHash]_vars

\* C15: withdraw is rejected and changes nothing when the caller is not the owner,
\* the metadata does not hash to the commitment, the position is liquidated, the
\* oracle price is 0 or the amount exceeds floor((collateral*price -
\* floor(debt*MCR/100)) / price); after an accepted withdraw the remaining
\* collateral r = collateral - amount has r >= 0 and r*price >= floor(debt*MCR/100),
\* and reservePoolTotal is lower by exactly the amount.
C15_WithdrawSolvent ==
    \A c \in Callers, id \in DOMAIN depositors, amt \in WithdrawAmounts \cup (0 .. 21),
       price \in 0 .. 2 :
    \A m \in WitnessMetadata(c[2], id) :
        LET r == withdrawCollateral(c[2], id, amt, price, m)
            MCV == (m.debt * initialMCR) \div 100
        IN  /\ (\/ generateUserId(c[2]) # depositors[id].id
                \/ hashMintMetadata(m, id) # depositors[id].metadataHash
                \/ depositors[id].position = "liquidated"
                \/ price = 0
                \/ amt > ((m.collateral * price) - MCV) \div price)
               => /\ ~r.ok
                  /\ r.depositors = depositors
                  /\ r.reserve = reservePoolTotal
                  /\ r.metadata = m
            /\ r.ok
               => /\ r.metadata.collateral = m.collateral - amt
                  /\ r.metadata.collateral >= 0
                  /\ r.metadata.collateral * price >= MCV
                  /\ r.reserve.value = reservePoolTotal.value - amt

\* an accepted withdraw of 500 from the collateral of 1000
C15_Witness ==
    /\ last.op = "withdraw" /\ last.ok
    /\ last.args.amount = 500 /\ last.args.metadata.collateral = 1000
    /\ reservePoolTotal.value = 500

\* C16: repay is rejected and changes nothing when the position is not active, the
\* coin is not of sUSDTokenType or the amount exceeds the debt (repay 600 against a
\* debt of 500); an accepted repay lowers the private debt by exactly the amount and
\* closes the position if and only if the remaining debt is 0, else it stays active.
C16_RepayEffect ==
    \A c \in Callers, id \in DOMAIN depositors, coin \in RepayCoins,
       amt \in RepayAmounts \cup {600} :
    \A m \in WitnessMetadata(c[2], id) :
        LET r == repay(c[2], coin, id, amt, m)
        IN  /\ (\/ depositors[id].position # "active"
                \/ coin.color # sUSDTokenType
                \/ amt > m.debt)
               => /\ ~r.ok
                  /\ r.depositors = depositors
                  /\ r.metadata = m
                  /\ r.burned = 0
            /\ r.ok
               => /\ r.metadata.debt = m.debt - amt
                  /\ r.metadata.collateral = m.collateral
                  /\ r.burned = amt
                  /\ (r.depositors[id].position = "closed") <=> (r.metadata.debt = 0)
                  /\ r.metadata.debt > 0 => r.depositors[id].position = "active"

\* an accepted repay of a part of the debt: the position is active with a debt of 5
C16_Witness ==
    /\ last.op = "repay" /\ last.ok
    /\ last.args.amount = 5 /\ last.args.metadata.debt = 10
    /\ depositors[last.args.id].position = "active"
    /\ committed(last.args.id).debt = 5

\* C17: with one staker holding 100 in a stake pool of 100, entry_scale_factor 1
\* and cumulative_scaling_factor 1, an accepted liquidate with debt 50 halves
\* cumulative_scaling_factor, and the staker's next checkReward reports an
\* effective balance of 50.
C17_ScenarioB ==
    [][(/\ last'.op = "liquidate" /\ last'.ok /\ last'.args.debt = 50
        /\ stakePoolTotal.value = 100
        /\ cumulative_scaling_factor = 1
        /\ \E pk \in DOMAIN stakers :
              stakers[pk].stakeAmount = 100 /\ stakers[pk].entry_scale_factor = 1)
          => /\ 2 * cumulative_scaling_factor' = cumulative_scaling_factor
             /\ \A pk \in DOMAIN stakers :
                   LET next == checkStakeReward(pk, stakers[pk].id[2])'
                   IN  /\ next.ok
                       /\ next.position.effective_user_balance = 50]_vars

\* C18: checkReward fails only for a caller without a Staker record or with a
\* derived id other than the stored one: in every reachable state the owner of
\* every Staker record gets reward = stakeAmount*(ADA_sUSD_index -
\* entry_ADA_SUSD_index) + stake_reward.
C18_CheckRewardSucceeds ==
    \A c \in Callers :
        (/\ c[1] \in DOMAIN stakers
         /\ generateUserId(c[2]) = stakers[c[1]].id)
        => LET r == checkStakeReward(c[1], c[2])
               st == stakers[c[1]]
           IN  /\ r.ok
               /\ r.reward = st.stakeAmount * (ADA_sUSD_index - st.entry_ADA_SUSD_index)
                                 + st.stake_reward

\* C19: withdrawReward(amount) is rejected and changes nothing when the amount
\* exceeds the reward checkReward computes; when accepted, the staker's stake_reward
\* is that reward minus the amount, entry_ADA_SUSD_index is the current
\* ADA_sUSD_index, reservePoolTotal is lower by exactly the amount, and a checkReward
\* right after it returns exactly the reward minus the amount.
C19_WithdrawRewardEffect ==
    /\ \A c \in Callers, amt \in RewardAmounts \cup {0, 4, 8, 12} :
          LET chk == checkStakeReward(c[1], c[2])
              r == withdrawStakeReward(c[1], c[2], amt)
          IN  /\ (chk.ok /\ amt > chk.reward)
                 => /\ ~r.ok
                    /\ r.stakers = stakers
                    /\ r.reserve = reservePoolTotal
              /\ r.ok
                 => /\ chk.ok
                    /\ r.stakers[c[1]].stake_reward = chk.reward - amt
                    /\ r.stakers[c[1]].entry_ADA_SUSD_index = ADA_sUSD_index
                    /\ r.reserve.value = reservePoolTotal.value - amt
    /\ (last.op = "withdrawReward" /\ last.ok)
          => LET after == checkStakeReward(last.caller[1], last.caller[2])
             IN  /\ after.ok
                 /\ after.reward = stakers[last.caller[1]].stake_reward
                 /\ stakers[last.caller[1]].entry_ADA_SUSD_index = ADA_sUSD_index

\* an accepted withdrawal of 4 out of a reward of 8: a reward of 4 is left
C19_Witness ==
    /\ last.op = "withdrawReward" /\ last.ok
    /\ last.args.amount = 4
    /\ stakers[last.caller[1]].stake_reward = 4

\* the secret key of the owner of a position (its id is derived from that key)
ownerOf(id) == depositors[id].id[2]

\* C20: an accepted liquidate(collateralAmt, depositId, debt) lowers stakePoolTotal by
\* exactly debt, raises ADA_sUSD_index by floor(collateralAmt / pool after the burn),
\* multiplies cumulative_scaling_factor by 1 - floor(debt / pool after the burn),
\* zeroes the private collateral and debt of the position, and sets hFactor 0,
\* borrowLimit 0 and position liquidated, leaving id and coinType as they were.
C20_LiquidateEffect ==
    [][(last'.op = "liquidate" /\ last'.ok)
          => LET a == last'.args
                 poolAfter == stakePoolTotal'.value
             IN  /\ poolAfter = stakePoolTotal.value - a.debt
                 /\ ADA_sUSD_index' = ADA_sUSD_index + (a.collateralAmt \div poolAfter)
                 /\ cumulative_scaling_factor'
                        = cumulative_scaling_factor * (1 - (a.debt \div poolAfter))
                 /\ priv'[ownerOf(a.id)][a.id] = defaultMetadata
                 /\ depositors'[a.id] = [depositors[a.id] EXCEPT !.hFactor = 0,
                                                                !.borrowLimit = 0,
                                                                !.position = "liquidated"]]_vars

(* ------------------------- liquidation preconditions ------------------- *)
\* C21: liquidate is rejected only when the position is absent or the stake pool
\* holds less than debt: for every existing position and every debt from 1 up to
\* stakePoolTotal.value (the whole pool and more than half of it included),
\* liquidateDebtPosition is accepted.
C21_LiquidateSucceeds ==
    \A id \in DOMAIN depositors, collateralAmt \in LiquidateCollateral,
       debt \in 1..stakePoolTotal.value :
        liquidateDebtPosition(collateralAmt, id, debt).ok

(* ------------------------------- staking ------------------------------- *)
\* C22: depositToStabilityPool(coin) is rejected and changes nothing when the caller
\* already has a Staker record or coin.color differs from sUSDTokenType; when it is
\* accepted, stakePoolTotal grows by exactly coin.value and the caller's new Staker
\* has stakeAmount = effective_user_balance = coin.value, stake_reward 0,
\* entry_ADA_SUSD_index = ADA_sUSD_index and entry_scale_factor =
\* cumulative_scaling_factor.
C22_StakeEffect ==
    /\ \A c \in Callers, coin \in [color : Colors, value : {0, 4, 100}] :
          LET r == depositToStabilityPool(c[1], c[2], coin) IN
          /\ (c[1] \in DOMAIN stakers \/ coin.color # sUSDTokenType)
                => /\ ~r.ok
                   /\ r.stakers = stakers
                   /\ r.stakePool = stakePoolTotal
          /\ r.ok
                => /\ r.stakePool.value = stakePoolTotal.value + coin.value
                   /\ DOMAIN r.stakers = DOMAIN stakers \cup {c[1]}
                   /\ r.stakers[c[1]].stakeAmount = coin.value
                   /\ r.stakers[c[1]].effective_user_balance = coin.value
                   /\ r.stakers[c[1]].stake_reward = 0
                   /\ r.stakers[c[1]].entry_ADA_SUSD_index = ADA_sUSD_index
                   /\ r.stakers[c[1]].entry_scale_factor = cumulative_scaling_factor
    /\ (last.op = "stake" /\ last.ok)
          => /\ last.caller[1] \in DOMAIN stakers
             /\ stakers[last.caller[1]].stakeAmount = last.args.coin.value
             /\ stakers[last.caller[1]].effective_user_balance = last.args.coin.value
             /\ stakers[last.caller[1]].stake_reward = 0
             /\ stakers[last.caller[1]].entry_ADA_SUSD_index = ADA_sUSD_index
             /\ stakers[last.caller[1]].entry_scale_factor = cumulative_scaling_factor

\* the second staker joins a pool that already holds the first stake of 4
C22_Witness ==
    /\ last.op = "stake" /\ last.ok
    /\ Cardinality(DOMAIN stakers) = 2
    /\ stakePoolTotal.value = 8

(* --------------------------- reserve accounting ------------------------ *)
\* C23: depositToCollateralPool is rejected and changes nothing when the depositId
\* is already present or the private collateral exceeds coin.value; and in every
\* reachable state reservePoolTotal.value is the total value of the coins accepted
\* by deposit minus the amounts sent out by withdrawCollateral and by
\* withdrawStakeReward (the overwrite on the first deposit and the reset to the
\* default coin neither lose nor create value).
C23_ReserveAccounting ==
    /\ \A c \in Callers, id \in DepositIds, coin \in [color : Colors, value : {0, 4, 20}],
          m \in [collateral : {4, 20}, debt : {0}] :
          LET r == depositToCollateralPool(c[2], coin, id, m) IN
          (id \in DOMAIN depositors \/ m.collateral > coin.value)
              => /\ ~r.ok
                 /\ r.depositors = depositors
                 /\ r.reserve = reservePoolTotal
    /\ reservePoolTotal.value = flow.deposited - flow.withdrawn - flow.rewards

\* two deposits of 4 (the first written, the second merged), a reward withdrawal
\* of 4 and a collateral withdrawal of 4 that resets the reserve to the default coin
C23_Witness ==
    /\ flow.deposited = 8 /\ flow.withdrawn = 4 /\ flow.rewards = 4
    /\ reservePoolTotal = defaultCoin
    /\ last.op \in {"withdraw", "withdrawReward"} /\ last.ok

(* ---------------------------- checked division ------------------------- *)
\* C24: DivisionFunction is floor division checked against its witness: for every
\* dividend, every divisor and every quotient/remainder pair the witness may
\* answer, the call is rejected or returns exactly floor(dividend / divisor); it is
\* rejected for divisor 0 and for every pair with remainder >= divisor or
\* quotient * divisor + remainder # dividend; with the witness of the API it is
\* accepted for every divisor > 0.
C24_VerifiedDivide ==
    /\ last.op = "DivisionFunctionWith"
          => LET a == last.args IN
             /\ last.ok
                   => /\ a.divisor > 0
                      /\ last.ret * a.divisor <= a.dividend
                      /\ a.dividend < (last.ret + 1) * a.divisor
             /\ (\/ a.divisor = 0
                 \/ a.remainder >= a.divisor
                 \/ a.quotient * a.divisor + a.remainder # a.dividend)
                   => ~last.ok
    /\ last.op = "DivisionFunction"
          => LET a == last.args IN
             /\ a.divisor = 0 => ~last.ok
             /\ a.divisor > 0
                   => /\ last.ok
                      /\ last.ret * a.divisor <= a.dividend
                      /\ a.dividend < (last.ret + 1) * a.divisor

\* 5 / 2 with the pair <<2, 1>> is accepted and returns 2
C24_Witness ==
    /\ last.op = "DivisionFunctionWith" /\ last.ok
    /\ last.args = [dividend |-> 5, divisor |-> 2, quotient |-> 2, remainder |-> 1]
    /\ last.ret = 2

(* -------------------------------- frame -------------------------------- *)
\* C25: an accepted call writes at most one map entry, the one its key names:
\* deposit, mint, withdraw, repay and liquidate change only the Depositor at the
\* given depositId and no Staker; stake, checkReward and withdrawReward change only
\* the caller's Staker and no Depositor; no step removes an entry of depositors or
\* of stakers, and the id and the coinType of a Depositor never change.
C25_Frame ==
    [][/\ DOMAIN depositors \subseteq DOMAIN depositors'
       /\ DOMAIN stakers \subseteq DOMAIN stakers'
       /\ \A id \in DOMAIN depositors :
             /\ depositors'[id].id = depositors[id].id
             /\ depositors'[id].coinType = depositors[id].coinType
       /\ (last'.ok /\ last'.op \in {"deposit", "mint", "withdraw", "repay", "liquidate"})
             => /\ stakers' = stakers
                /\ DOMAIN depositors' \subseteq DOMAIN depositors \cup {last'.args.id}
                /\ \A id \in DOMAIN depositors \ {last'.args.id} :
                      depositors'[id] = depositors[id]
       /\ (last'.ok /\ last'.op \in {"stake", "checkReward", "withdrawReward"})
             => /\ depositors' = depositors
                /\ DOMAIN stakers' \subseteq DOMAIN stakers \cup {last'.caller[1]}
                /\ \A pk \in DOMAIN stakers \ {last'.caller[1]} :
                      stakers'[pk] = stakers[pk]]_vars

\* the first position is liquidated while a second, active position and two
\* stakers are on the ledger
C25_Witness ==
    /\ last.op = "liquidate" /\ last.ok /\ last.args.id = 1
    /\ DOMAIN depositors = {1, 2}
    /\ depositors[2].position = "active"
    /\ Cardinality(DOMAIN stakers) = 2

(* --------------------------- reserve solvency -------------------------- *)
\* the collateral the owner of a position holds for it in private state
privateCollateral == [id \in DOMAIN depositors |-> priv[ownerOf(id)][id].collateral]

NotLiquidated == {id \in DOMAIN depositors : depositors[id].position # "liquidated"}

\* C26: in every reachable state reservePoolTotal.value is at least the sum of the
\* private collateral of the positions that are not liquidated: reward withdrawals
\* never take collateral still owed to depositors.
C26_ReserveSolvency ==
    reservePoolTotal.value >= SumOver(NotLiquidated, privateCollateral)

(* -------------------------- reward conservation ------------------------ *)
\* the reward the next checkStakeReward of a staker returns (0 when it is rejected)
nextReward == [pk \in DOMAIN stakers |->
                 LET chk == checkStakeReward(pk, stakers[pk].id[2])
                 IN  IF chk.ok THEN chk.reward ELSE 0]

\* C27: in every reachable state the rewards already withdrawn plus the rewards the
\* next checkStakeReward of every staker would return do not exceed the collateral
\* the liquidated positions held when they were liquidated.
C27_RewardConservation ==
    flow.rewards + SumOver(DOMAIN stakers, nextReward) <= flow.liquidated

C29_CollateralColor ==
    /\ \A id \in DOMAIN depositors : depositors[id].coinType = validCollateralAssetType
    /\ (last.op = "deposit" /\ last.ok)
          => last.args.coin.color = validCollateralAssetType

====
